---- MODULE Spec2Model ----
(***************************************************************************)
(* Payment reconciliation of programacao.dev: the pay endpoints, the       *)
(* Mercado Pago webhook handlers and the refund endpoints, acting on the   *)
(* Payment / PaymentItem / Enrollment / Refund tables and on the payment   *)
(* gateway.  The repository holds several generations of each handler;     *)
(* each is modelled from its own source and tagged with a version.         *)
(***************************************************************************)
EXTENDS Integers, Sequences, FiniteSets, TLC

\* ---------------------------------------------------------------- bounds
MaxPayments == 1
MaxRefunds == 2

\* ------------------------------------------------------- program constants
DefaultDurationMonths == 12
RefundLimitDays008 == 30
RefundLimitDaysV1 == 30
RefundLimitDaysV3 == 7

\* ------------------------------------------------------------- catalogue
Users == {"u1"}
Courses == {"c1", "c2"}
Journeys == {"j1"}
MpIds == 1..MaxPayments
\* external_reference of a gateway payment ("order-<timestamp>"): truthy, no user id
OrderRef == "order-ref"
\* the instants a request can arrive at, in days since the start
Days == {0, 8}

Range(s) == {s[i] : i \in DOMAIN s}

\* ------------------------------------------------------ gateway statuses
GatewayStatuses ==
  {"pending", "approved", "refunded", "cancelled", "rejected",
   "in_process", "in_mediation", "charged_back", "authorized", "", "APPROVED", "Refunded"}

\* String.prototype.toLowerCase on the statuses the gateway can send
ToLowerCase(s) ==
  CASE s = "APPROVED" -> "approved"
    [] s = "Refunded" -> "refunded"
    [] OTHER -> s

PaymentStatus == {"PENDING", "APPROVED", "REFUNDED", "CANCELLED", "FAILED"}

paymentStatusMap ==
  [s \in {"pending", "approved", "refunded", "cancelled", "rejected",
          "in_process", "in_mediation", "charged_back"} |->
     CASE s = "pending" -> "PENDING"
       [] s = "approved" -> "APPROVED"
       [] s = "refunded" -> "REFUNDED"
       [] s = "cancelled" -> "CANCELLED"
       [] s = "rejected" -> "FAILED"
       [] s = "in_process" -> "PENDING"
       [] s = "in_mediation" -> "PENDING"
       [] s = "charged_back" -> "FAILED"]

\* (a slip in the fallback: an unknown status taken for a failure)
MappedStatus_Mutant(status) ==
  IF status \in DOMAIN paymentStatusMap THEN paymentStatusMap[status] ELSE "FAILED"

\* const mappedStatus = paymentStatusMap[status] || "PENDING"
MappedStatus(status) ==
  IF status \in DOMAIN paymentStatusMap THEN paymentStatusMap[status] ELSE "PENDING"

NegativeStatuses == {"refunded", "cancelled", "rejected", "charged_back"}

\* ------------------------------------------------------------ cart items
\* what the checkout sends: an item id with the type word the client uses
Item(id, type) == [id |-> id, type |-> type]
KindOf(id) == IF id \in Courses THEN "course" ELSE "journey"
ClientWord(voc, id) ==
  CASE voc = "en" -> KindOf(id)
    [] voc = "pt" -> (IF id \in Courses THEN "curso" ELSE "jornada")
    [] OTHER -> "none"
Vocabularies == {"en", "pt", "none"}
CartIds == {<<"c1">>, <<"j1">>, <<"c1", "j1">>}
Cart(voc, ids) == [i \in DOMAIN ids |-> Item(ids[i], ClientWord(voc, ids[i]))]

\* ------------------------------------------------------------ database rows
NoId == "null"
PaymentItemRow(itemType, courseId, journeyId) ==
  [itemType |-> itemType, courseId |-> courseId, journeyId |-> journeyId]
NullDate == [null |-> TRUE, from |-> 0, months |-> 0]
\* new Date(); setMonth(getMonth() + durationMonths)
EndDate(t, months) == [null |-> FALSE, from |-> t, months |-> months]
Enrollment(userId, kind, ref, endDate) ==
  [userId |-> userId, kind |-> kind, ref |-> ref, endDate |-> endDate]

VARIABLES
  gateway,      \* payments held by Mercado Pago, by payment id
  payments,     \* Payment rows (with their PaymentItem rows), by mpPaymentId
  enrollments,  \* Enrollment rows
  refunds,      \* Refund rows of each payment: their statuses, oldest first
  hooks,        \* running webhook handlers
  reqs,         \* running refund requests, and the last response of each slot
  now,          \* the clock
  carts,        \* the Cart of each user with its CartItem rows
  web           \* the last page or API request answered, with its answer

vars == <<gateway, payments, enrollments, refunds, hooks, reqs, now, carts, web>>

\* the three tables as one value
DB == [p |-> payments, e |-> enrollments, r |-> refunds]

\* ------------------------------------------------------------- Payment rows
PaymentRow(userId, status, itemType, courseId, journeyId, metaItems, items, createdAt) ==
  [userId |-> userId, status |-> status, itemType |-> itemType,
   courseId |-> courseId, journeyId |-> journeyId,
   metaItems |-> metaItems, items |-> items, createdAt |-> createdAt]
EmptyRow == PaymentRow("", "", NoId, NoId, NoId, <<>>, <<>>, 0)

\* the foreign keys of the PaymentItem rows created with a payment
ForeignKeysOk(rows) ==
  \A i \in DOMAIN rows :
    /\ rows[i].courseId \in Courses \cup {NoId}
    /\ rows[i].journeyId \in Journeys \cup {NoId}

\* ------------------------------------------------------------ the gateway
GatewayPayment(status, camel, userId, items, via, saved) ==
  [status |-> status, camel |-> camel, userId |-> userId, items |-> items,
   via |-> via, saved |-> saved]

\* ------------------------------------------------------------ pay endpoints
\* pay/route.ts: item.type === 'course' ? 'curso' : item.type === 'journey' ? 'jornada' : item.type;
\* an item without a type is looked up in the course and journey tables
NormalizeType(item) ==
  CASE item.type = "course" -> "curso"
    [] item.type = "journey" -> "jornada"
    [] item.type = "none" -> (IF item.id \in Courses THEN "curso" ELSE "jornada")
    [] OTHER -> item.type
ItemsWithTypes(items) == [i \in DOMAIN items |-> Item(items[i].id, NormalizeType(items[i]))]

\* pay/route.ts 23-290: validate the items, create the payment at the gateway
\* with metadata { userId, items }.  The gateway answers with a fresh id and
\* may or may not hand the metadata key userId back in camel case.
PayGateway(userId, items, camel) ==
  /\ \E id \in MpIds :
       /\ id \notin DOMAIN gateway
       /\ \A j \in MpIds : j < id => j \in DOMAIN gateway
       /\ gateway' = gateway @@
            (id :> GatewayPayment("pending", camel, userId, ItemsWithTypes(items), "current", FALSE))
  /\ UNCHANGED <<carts, web, payments, enrollments, refunds, hooks, reqs, now>>

PaymentItemsOfPay(items) ==
  [i \in DOMAIN items |->
     IF items[i].type = "curso"
       THEN PaymentItemRow("COURSE", items[i].id, NoId)
       ELSE PaymentItemRow("JOURNEY", NoId, items[i].id)]

\* pay/route.ts 292-398: prisma.payment.create with status PENDING and the
\* PaymentItem rows; a row with this mpPaymentId already there is a unique
\* violation and the request ends with 500
PaySave(id) ==
  /\ id \in DOMAIN gateway
  /\ gateway[id].via = "current" /\ ~gateway[id].saved
  /\ gateway' = [gateway EXCEPT ![id].saved = TRUE]
  /\ LET g == gateway[id]
         rows == PaymentItemsOfPay(g.items)
     IN payments' =
          IF id \in DOMAIN payments \/ ~ForeignKeysOk(rows)
            THEN payments
            ELSE payments @@
                   (id :> PaymentRow(g.userId, "PENDING", NoId, NoId, NoId, g.items, rows, now))
  /\ UNCHANGED <<carts, web, enrollments, refunds, hooks, reqs, now>>

\* webhook/route.ts 624-754 (the earlier pay endpoint): the item types are sent
\* to the gateway as the client wrote them
LegacyPayGateway(userId, items, camel) ==
  /\ \E id \in MpIds :
       /\ id \notin DOMAIN gateway
       /\ \A j \in MpIds : j < id => j \in DOMAIN gateway
       /\ gateway' = gateway @@
            (id :> GatewayPayment("pending", camel, userId, items, "legacy", FALSE))
  /\ UNCHANGED <<carts, web, payments, enrollments, refunds, hooks, reqs, now>>

FirstOfType(items, type) ==
  LET idx == {i \in DOMAIN items : items[i].type = type}
  IN IF idx = {} THEN NoId
     ELSE items[CHOOSE i \in idx : \A j \in idx : i <= j].id

LegacyItemType(items) ==
  IF Len(items) = 1
    THEN (IF items[1].type = "course" THEN "COURSE" ELSE "JOURNEY")
    ELSE "MULTIPLE"

\* webhook/route.ts 756-808: prisma.payment.upsert; the update branch writes
\* status PENDING, the metadata and createdAt
LegacyPayUpsert(rows, id, g, t) ==
  IF id \in DOMAIN rows
    THEN [rows EXCEPT ![id].status = "PENDING", ![id].metaItems = g.items,
                      ![id].createdAt = t]
    ELSE rows @@
           (id :> PaymentRow(g.userId, "PENDING", LegacyItemType(g.items),
                             FirstOfType(g.items, "course"), FirstOfType(g.items, "journey"),
                             g.items, <<>>, t))

LegacyPaySave(id) ==
  /\ id \in DOMAIN gateway
  /\ gateway[id].via = "legacy" /\ ~gateway[id].saved
  /\ gateway' = [gateway EXCEPT ![id].saved = TRUE]
  /\ payments' = LegacyPayUpsert(payments, id, gateway[id], now)
  /\ UNCHANGED <<carts, web, enrollments, refunds, hooks, reqs, now>>

\* ------------------------------------------------------------ environment
\* the gateway moves a payment to another status
GatewayUpdate(id, s) ==
  /\ id \in DOMAIN gateway
  /\ gateway[id].status # s
  /\ gateway' = [gateway EXCEPT ![id].status = s]
  /\ UNCHANGED <<carts, web, payments, enrollments, refunds, hooks, reqs, now>>

\* the gateway approves a pending payment, or refunds an approved one
GatewaySettles(id) ==
  /\ id \in DOMAIN gateway
  /\ gateway[id].status \in {"pending", "approved"}
  /\ gateway' = [gateway EXCEPT ![id].status =
                   IF gateway[id].status = "pending" THEN "approved" ELSE "refunded"]
  /\ UNCHANGED <<carts, web, payments, enrollments, refunds, hooks, reqs, now>>

Tick ==
  /\ \E t \in Days : t > now /\ now' = t
  /\ UNCHANGED <<carts, web, gateway, payments, enrollments, refunds, hooks, reqs>>

\* the clock moves on to one of the given days
Advance(days) ==
  /\ \E t \in days : t > now /\ now' = t
  /\ UNCHANGED <<carts, web, gateway, payments, enrollments, refunds, hooks, reqs>>

\* ---------------------------------------------------------- webhook handlers
Hooks == {"h1", "h2"}
HookVersions == {"current", "part007"}
IdleHook ==
  [pc |-> "idle", ver |-> "", id |-> 0, rawStatus |-> "", status |-> "", mappedStatus |-> "",
   userId |-> "", items |-> <<>>, sawRefunds |-> FALSE]

\* getPaymentWithFallback and the head of POST, up to mappedStatus: what the
\* handler holds of payment id once it has read the gateway (and, when the
\* metadata carries no userId, the Payment row)
GetPaymentWithFallback(D, gw, ver, id) ==
  LET g == gw[id]
      hasRow == id \in DOMAIN D.p
      status == ToLowerCase(g.status)
      userId == IF g.camel THEN g.userId
                ELSE IF hasRow THEN D.p[id].userId ELSE OrderRef
      items == IF ~g.camel /\ hasRow /\ D.p[id].metaItems # <<>>
                 THEN D.p[id].metaItems ELSE g.items
  IN [pc |-> "write", ver |-> ver, id |-> id, rawStatus |-> g.status, status |-> status,
      mappedStatus |-> MappedStatus(status), userId |-> userId, items |-> items,
      sawRefunds |-> FALSE]

\* the result of one step of a handler: the tables, the handler's locals and
\* where it goes next ("items": the enrollment writes; "end": it responds)
StepResult(D, L, next) == [db |-> D, hook |-> L, next |-> next]

WebhookItemRows(items) ==
  [i \in DOMAIN items |->
     IF items[i].type = "course"
       THEN PaymentItemRow("COURSE", items[i].id, NoId)
       ELSE PaymentItemRow("JOURNEY", NoId, items[i].id)]

\* (a slip: the update branch creating the PaymentItem rows once more)
ApprovedUpdate_Mutant(row, L) ==
  [row EXCEPT !.status = "APPROVED", !.metaItems = L.items,
              !.items = @ \o WebhookItemRows(L.items)]

\* the update branch of the upsert of processApprovedPayment (webhook/route.ts 208-215)
ApprovedUpdate(row, L) == [row EXCEPT !.status = "APPROVED", !.metaItems = L.items]

\* processApprovedPayment, webhook/route.ts 162-219: ensureUserExists, then the upsert
ProcessApprovedUpsert(D, L, t) ==
  IF L.userId \notin Users THEN StepResult(D, L, "end")
  ELSE IF L.id \in DOMAIN D.p
    THEN StepResult([D EXCEPT !.p[L.id] = ApprovedUpdate(@, L)], L, "items")
  ELSE IF ~ForeignKeysOk(WebhookItemRows(L.items)) THEN StepResult(D, L, "end")
  ELSE StepResult(
         [D EXCEPT !.p = @ @@ (L.id :> PaymentRow(L.userId, "APPROVED", NoId, NoId, NoId,
                                                 L.items, WebhookItemRows(L.items), t))],
         L, "items")

\* prisma.enrollment.upsert of one item (webhook/route.ts 223-258, part_007 217-234)
UpsertEnrollment(E, userId, item, t) ==
  IF item.type = "course" /\ item.id \in Courses THEN
    IF \E e \in E : e.userId = userId /\ e.kind = "course" /\ e.ref = item.id
      THEN E
      ELSE E \cup {Enrollment(userId, "course", item.id, NullDate)}
  ELSE IF item.type = "journey" /\ item.id \in Journeys THEN
    {e \in E : ~(e.userId = userId /\ e.kind = "journey" /\ e.ref = item.id)}
      \cup {Enrollment(userId, "journey", item.id, EndDate(t, DefaultDurationMonths))}
  ELSE E

RECURSIVE EnrollAll(_, _, _, _)
EnrollAll(E, userId, items, t) ==
  IF items = <<>> THEN E
  ELSE EnrollAll(UpsertEnrollment(E, userId, Head(items), t), userId, Tail(items), t)

\* revokeUserAccess, webhook/route.ts 104-122
RevokeUserAccess(E, userId, items) ==
  {e \in E :
     ~\E i \in DOMAIN items :
        /\ e.userId = userId /\ e.ref = items[i].id
        /\ \/ items[i].type = "course" /\ e.kind = "course"
           \/ items[i].type = "journey" /\ e.kind = "journey"}

\* webhook/route.ts 368-384: which of the negative statuses revoke the access
RevokesAccess(status) == status = "refunded"

\* webhook/route.ts 368-384: prisma.payment.update throws when no row is there
NegativeStatusUpdate(D, L) ==
  IF L.id \notin DOMAIN D.p THEN StepResult(D, L, "end")
  ELSE StepResult([D EXCEPT !.p[L.id].status = L.mappedStatus], L,
                  IF RevokesAccess(L.status) THEN "items" ELSE "end")

\* webhook/route.ts 398-452: the upsert of the pending branch
PendingUpsert(D, L, t) ==
  IF L.userId \notin Users THEN StepResult(D, L, "end")
  ELSE IF L.id \in DOMAIN D.p
    THEN StepResult([D EXCEPT !.p[L.id].status = L.mappedStatus,
                              !.p[L.id].metaItems = L.items], L, "end")
  ELSE IF ~ForeignKeysOk(WebhookItemRows(L.items)) THEN StepResult(D, L, "end")
  ELSE StepResult(
         [D EXCEPT !.p = @ @@ (L.id :> PaymentRow(L.userId, L.mappedStatus, NoId, NoId, NoId,
                                                 L.items, WebhookItemRows(L.items), t))],
         L, "end")

\* webhook/route.ts 354-454: the payment write of POST
CurrentWrite(D, L, t) ==
  IF L.items = <<>> THEN StepResult(D, L, "end")
  ELSE IF L.status \in NegativeStatuses THEN NegativeStatusUpdate(D, L)
  ELSE IF L.status = "approved" THEN ProcessApprovedUpsert(D, L, t)
  ELSE PendingUpsert(D, L, t)

\* webhook/route.ts 221-259 and 378-381: the enrollment writes of POST
CurrentItems(D, L, t) ==
  IF L.status = "approved"
    THEN [D EXCEPT !.e = EnrollAll(@, L.userId, L.items, t)]
    ELSE [D EXCEPT !.e = RevokeUserAccess(@, L.userId, L.items)]

\* ---- unnamed/part_007: the earlier webhook handler
ItemTypeOf007(items) ==
  IF Len(items) = 1
    THEN (IF items[1].type = "journey" THEN "JOURNEY" ELSE "COURSE")
    ELSE "MULTIPLE"

\* part_007 93-124: ensureUserExists, then the upsert (include refunds)
HandlePaymentStatusUpdate007(D, L, t) ==
  IF L.userId \notin Users THEN StepResult(D, L, "end")
  ELSE LET rows == IF L.id \in DOMAIN D.p
                     THEN [D.p EXCEPT ![L.id].status = L.mappedStatus,
                                      ![L.id].metaItems = L.items]
                     ELSE D.p @@ (L.id :> PaymentRow(L.userId, L.mappedStatus,
                                                     ItemTypeOf007(L.items), NoId, NoId,
                                                     L.items, <<>>, t))
       IN StepResult([D EXCEPT !.p = rows],
                     [L EXCEPT !.sawRefunds = D.r[L.id] # <<>>],
                     IF L.mappedStatus \in {"REFUNDED", "CANCELLED"} THEN "items" ELSE "end")

\* prisma.refund.updateMany({ where: { status: 'PENDING' }, data: { status: 'COMPLETED' } })
CompletePendingRefunds(rs) ==
  [i \in DOMAIN rs |-> IF rs[i] = "PENDING" THEN "COMPLETED" ELSE rs[i]]

\* part_007 126-175: the revocation and the refunds of the payment
RevokeAndComplete007(D, L) ==
  [D EXCEPT !.e = RevokeUserAccess(@, L.userId, L.items),
            !.r[L.id] = IF L.sawRefunds THEN CompletePendingRefunds(@) ELSE @]

\* part_007 182-215: ensureUserExists, then the upsert
ProcessApprovedUpsert007(D, L, t) ==
  IF L.userId \notin Users THEN StepResult(D, L, "end")
  ELSE IF L.id \in DOMAIN D.p
    THEN StepResult([D EXCEPT !.p[L.id].status = "APPROVED"], L, "items")
  ELSE StepResult(
         [D EXCEPT !.p = @ @@
            (L.id :> PaymentRow(L.userId, "APPROVED", ItemTypeOf007(L.items),
                       IF Len(L.items) = 1 /\ L.items[1].type = "course"
                         THEN L.items[1].id ELSE NoId,
                       IF Len(L.items) = 1 /\ L.items[1].type = "journey"
                         THEN L.items[1].id ELSE NoId,
                       <<>>, <<>>, t))],
         L, "items")

\* part_007 341-372: the upsert of the pending branch
PendingUpsert007(D, L, t) ==
  IF L.userId \notin Users THEN StepResult(D, L, "end")
  ELSE IF L.id \in DOMAIN D.p
    THEN StepResult([D EXCEPT !.p[L.id].status = L.mappedStatus], L, "end")
  ELSE StepResult(
         [D EXCEPT !.p = @ @@ (L.id :> PaymentRow(L.userId, L.mappedStatus,
                                                 ItemTypeOf007(L.items), NoId, NoId,
                                                 <<>>, <<>>, t))],
         L, "end")

\* part_007 303-374: the payment write of POST
Write007(D, L, t) ==
  IF L.items = <<>> THEN StepResult(D, L, "end")
  ELSE IF L.status \in NegativeStatuses THEN HandlePaymentStatusUpdate007(D, L, t)
  ELSE IF L.status = "approved" THEN ProcessApprovedUpsert007(D, L, t)
  ELSE PendingUpsert007(D, L, t)

\* part_007 126-175 and 217-234: the enrollment writes of POST
Items007(D, L, t) ==
  IF L.status = "approved"
    THEN [D EXCEPT !.e = EnrollAll(@, L.userId, L.items, t)]
    ELSE RevokeAndComplete007(D, L)

\* ---- the handler as a process: read, payment write, enrollment writes
HookWrite(D, L, t) == IF L.ver = "current" THEN CurrentWrite(D, L, t) ELSE Write007(D, L, t)
HookItems(D, L, t) == IF L.ver = "current" THEN CurrentItems(D, L, t) ELSE Items007(D, L, t)

\* a whole handler run with nothing else in between, at time t
RunWebhook(D, gw, ver, id, t) ==
  IF id \notin DOMAIN gw THEN D
  ELSE LET w == HookWrite(D, GetPaymentWithFallback(D, gw, ver, id), t)
       IN IF w.next = "end" THEN w.db ELSE HookItems(w.db, w.hook, t)

SetDB(D) ==
  /\ payments' = D.p
  /\ enrollments' = D.e
  /\ refunds' = D.r

\* a notification for payment id arrives: the handler reads the payment
WebhookFetch(h, ver, id) ==
  /\ hooks[h].pc = "idle"
  /\ h = "h2" => hooks["h1"].pc # "idle"
  /\ id \in DOMAIN gateway
  /\ hooks' = [hooks EXCEPT ![h] = GetPaymentWithFallback(DB, gateway, ver, id)]
  /\ UNCHANGED <<carts, web, gateway, payments, enrollments, refunds, reqs, now>>

WebhookWrite(h) ==
  /\ hooks[h].pc = "write"
  /\ LET w == HookWrite(DB, hooks[h], now)
     IN /\ SetDB(w.db)
        /\ hooks' = [hooks EXCEPT ![h] =
                       IF w.next = "end" THEN IdleHook ELSE [w.hook EXCEPT !.pc = "items"]]
  /\ UNCHANGED <<carts, web, gateway, reqs, now>>

WebhookItems(h) ==
  /\ hooks[h].pc = "items"
  /\ SetDB(HookItems(DB, hooks[h], now))
  /\ hooks' = [hooks EXCEPT ![h] = IdleHook]
  /\ UNCHANGED <<carts, web, gateway, reqs, now>>

\* ------------------------------------------------------------ refund requests
Reqs == {"r1", "r2"}
RefundVersions == {"v1", "part008", "v3"}
\* who may send a refund request, and for which payment id (0: no such payment)
Requesters == Users \cup {"u2"}
RequestIds == MpIds \cup {0}
RefundGatewayStatuses == {"PENDING", "APPROVED"}

IdleReq(resp) ==
  [pc |-> "idle", ver |-> "", id |-> 0, userId |-> "", row |-> EmptyRow,
   status |-> "", resp |-> resp]

\* part_008 44-45, part_009 123-124
HasApprovedRefund(rs) == \E i \in DOMAIN rs : rs[i] \in {"COMPLETED", "APPROVED"}

RefundLimitDays(ver) ==
  CASE ver = "v1" -> RefundLimitDaysV1
    [] ver = "part008" -> RefundLimitDays008
    [] OTHER -> RefundLimitDaysV3

\* (a slip: the owner of the payment not checked)
RefundRejection_AnyUser(D, ver, id, userId, t) ==
  IF id \notin DOMAIN D.p THEN 404
  ELSE IF ver # "v1" /\ HasApprovedRefund(D.r[id]) THEN 400
  ELSE IF t > D.p[id].createdAt + RefundLimitDays(ver) THEN 400
  ELSE 0

\* (a slip: the last day of the window already refused)
RefundRejection_Mutant(D, ver, id, userId, t) ==
  IF id \notin DOMAIN D.p THEN 404
  ELSE IF D.p[id].userId # userId THEN 403
  ELSE IF ver # "v1" /\ HasApprovedRefund(D.r[id]) THEN 400
  ELSE IF t >= D.p[id].createdAt + RefundLimitDays(ver) THEN 400
  ELSE 0

\* the checks a refund request makes before it calls the gateway: the HTTP
\* status it is rejected with, or 0 when it goes on
\* (part_009 11-29, part_008 25-62, part_009 99-141)
RefundRejection(D, ver, id, userId, t) ==
  IF id \notin DOMAIN D.p THEN 404
  ELSE IF D.p[id].userId # userId THEN 403
  ELSE IF ver # "v1" /\ HasApprovedRefund(D.r[id]) THEN 400
  ELSE IF t > D.p[id].createdAt + RefundLimitDays(ver) THEN 400
  ELSE 0

InFlight(id) == Cardinality({r \in Reqs : reqs[r].pc # "idle" /\ reqs[r].id = id})

RefundStart(r, ver, id, userId) ==
  /\ reqs[r].pc = "idle"
  /\ r = "r2" => reqs["r1"].pc # "idle"
  /\ LET rej == RefundRejection(DB, ver, id, userId, now)
     IN IF rej # 0
          THEN reqs' = [reqs EXCEPT ![r] = IdleReq(rej)]
          ELSE /\ Len(refunds[id]) + InFlight(id) < MaxRefunds
               /\ reqs' = [reqs EXCEPT ![r] =
                             [pc |-> "gateway", ver |-> ver, id |-> id, userId |-> userId,
                              row |-> payments[id], status |-> "", resp |-> 0]]
  /\ UNCHANGED <<carts, web, gateway, payments, enrollments, refunds, hooks, now>>

\* refundClient.create({ payment_id }): the gateway refunds an approved payment
\* in full and reports it refunded from then on
GatewayAcceptsRefund(g) == g.status = "approved"

RefundGatewayOk(r, st) ==
  /\ reqs[r].pc = "gateway"
  /\ reqs[r].id \in DOMAIN gateway /\ GatewayAcceptsRefund(gateway[reqs[r].id])
  /\ gateway' = [gateway EXCEPT ![reqs[r].id].status = "refunded"]
  /\ reqs' = [reqs EXCEPT ![r].pc = "tx", ![r].status = st]
  /\ UNCHANGED <<carts, web, payments, enrollments, refunds, hooks, now>>

\* the gateway call throws: part_008 75-80 and part_009 157-163 answer 500,
\* part_009 67-70 as well
RefundGatewayError(r) ==
  /\ reqs[r].pc = "gateway"
  /\ ~(reqs[r].id \in DOMAIN gateway /\ GatewayAcceptsRefund(gateway[reqs[r].id]))
  /\ reqs' = [reqs EXCEPT ![r] = IdleReq(500)]
  /\ UNCHANGED <<carts, web, gateway, payments, enrollments, refunds, hooks, now>>

\* part_008 83-99, part_009 166-185: refund.create and payment.update in one
\* transaction; part_009 38-45: refund.create alone
RefundRecord(D, L) ==
  [D EXCEPT !.r[L.id] = Append(@, L.status),
            !.p[L.id].status = IF L.ver = "v1" THEN @ ELSE "REFUNDED"]

RefundTx(r) ==
  /\ reqs[r].pc = "tx"
  /\ SetDB(RefundRecord(DB, reqs[r]))
  /\ reqs' = [reqs EXCEPT ![r].pc = "revoke"]
  /\ UNCHANGED <<carts, web, gateway, hooks, now>>

CourseIdOf(e) == IF e.kind = "course" THEN e.ref ELSE NoId
JourneyIdOf(e) == IF e.kind = "journey" THEN e.ref ELSE NoId

\* part_009 47-64: deleteMany by the payment's courseId / journeyId columns
RevokeV1(E, userId, row) ==
  {e \in E :
     ~(/\ e.userId = userId
       /\ \/ row.itemType = "COURSE" /\ CourseIdOf(e) = row.courseId
          \/ row.itemType = "JOURNEY" /\ JourneyIdOf(e) = row.journeyId)}

\* part_008 103-147
Revoke008(E, userId, row) ==
  IF row.itemType = "COURSE" /\ row.courseId # NoId
    THEN {e \in E : ~(e.userId = userId /\ CourseIdOf(e) = row.courseId)}
  ELSE IF row.itemType = "JOURNEY" /\ row.journeyId # NoId
    THEN {e \in E : ~(e.userId = userId /\ JourneyIdOf(e) = row.journeyId)}
  ELSE IF row.itemType = "MULTIPLE"
    THEN RevokeUserAccess(E, userId, row.metaItems)
  ELSE E

\* part_009 189-216: deleteMany for every PaymentItem row of the payment
RevokeV3(E, userId, row) ==
  {e \in E :
     ~\E i \in DOMAIN row.items :
        /\ e.userId = userId
        /\ \/ /\ row.items[i].itemType = "COURSE" /\ row.items[i].courseId # NoId
              /\ CourseIdOf(e) = row.items[i].courseId
           \/ /\ row.items[i].itemType = "JOURNEY" /\ row.items[i].journeyId # NoId
              /\ JourneyIdOf(e) = row.items[i].journeyId}

RefundRevokeAccess(E, L) ==
  CASE L.ver = "v1" -> RevokeV1(E, L.userId, L.row)
    [] L.ver = "part008" -> Revoke008(E, L.userId, L.row)
    [] OTHER -> RevokeV3(E, L.userId, L.row)

\* the access is revoked and the request answers { success: true }
RefundRevoke(r) ==
  /\ reqs[r].pc = "revoke"
  /\ enrollments' = RefundRevokeAccess(enrollments, reqs[r])
  /\ reqs' = [reqs EXCEPT ![r] = IdleReq(200)]
  /\ UNCHANGED <<carts, web, gateway, payments, refunds, hooks, now>>

\* ------------------------------------------------------------ access checks
\* the users with an account: the buyers and one who never bought
SignedUp == Users \cup {"u2"}
\* a request carries the session of a user or none
NoSession == "anonymous"
Sessions == SignedUp \cup {NoSession}

\* the length of a month of setMonth, in days of the clock
DaysPerMonth == 30
EndDay(endDate) == endDate.from + endDate.months * DaysPerMonth
\* OR: [{ endDate: null }, { endDate: { gte: new Date() } }]
NullOrGte(endDate, t) == endDate.null \/ EndDay(endDate) >= t

\* the JourneyCourse table: journey j1 is the bundle with course c1 in it
JourneyCourses == [j \in Journeys |-> {"c1"}]
\* the Lesson table with the course of each lesson's module; "l9" is no lesson
LessonIds == {"l1", "l2", "l9"}
LessonCourseId(lessonId) ==
  CASE lessonId = "l1" -> "c1"
    [] lessonId = "l2" -> "c2"
    [] OTHER -> NoId

\* a check that also counts an enrollment for a journey with the course in it
HasCourseAccessLib_Mutant(E, userId, courseId, t) ==
  \E e \in E :
    /\ e.userId = userId /\ NullOrGte(e.endDate, t)
    /\ \/ CourseIdOf(e) = courseId
       \/ (e.kind = "journey" /\ e.ref \in Journeys /\ courseId \in JourneyCourses[e.ref])

\* part_015 24-39: hasCourseAccess of the permissions library
HasCourseAccessLib(E, userId, courseId, t) ==
  \E e \in E : e.userId = userId /\ CourseIdOf(e) = courseId /\ NullOrGte(e.endDate, t)

\* (a slip: the end of the enrollment not looked at)
HasCourseAccess_Mutant(E, userId, courseId, t) ==
  \E e \in E : e.userId = userId /\ CourseIdOf(e) = courseId

\* part_015 48-62: hasLessonAccess asks for the course of the lesson's module
HasLessonAccess(E, userId, lessonId, t) ==
  IF LessonCourseId(lessonId) = NoId THEN FALSE
  ELSE HasCourseAccessLib(E, userId, LessonCourseId(lessonId), t)

\* part_001 96-108: hasCourseAccess of the middleware
HasCourseAccess(E, userId, courseId, t) ==
  \E e \in E : e.userId = userId /\ CourseIdOf(e) = courseId /\ NullOrGte(e.endDate, t)

\* part_001 111-123: hasJourneyAccess of the middleware
HasJourneyAccess(E, userId, journeyId, t) ==
  \E e \in E : e.userId = userId /\ JourneyIdOf(e) = journeyId /\ NullOrGte(e.endDate, t)

\* has-access/route.ts 6-75: the answer of GET /api/user/has-access?type=&id=
AccessTypes == {"course", "curso", "journey", "jornada", "lesson"}
HasAccessAnswer(E, session, typeParam, id, t) ==
  LET type == IF typeParam = "curso" THEN "course"
              ELSE IF typeParam = "jornada" THEN "journey" ELSE typeParam
  IN IF session = NoSession THEN FALSE
     ELSE IF type = "course"
       THEN \E e \in E : e.userId = session /\ CourseIdOf(e) = id /\ NullOrGte(e.endDate, t)
     ELSE IF type = "journey"
       THEN \E e \in E : e.userId = session /\ JourneyIdOf(e) = id /\ NullOrGte(e.endDate, t)
     ELSE FALSE

\* part_012 6-91: the answer of the user-enrollments endpoint, as the ids of
\* the courses and of the journeys it lists
UserEnrollments(E, session, t) ==
  LET rows == {e \in E : e.userId = session /\ NullOrGte(e.endDate, t)}
  IN [courses  |-> {CourseIdOf(e) : e \in {x \in rows : CourseIdOf(x) # NoId /\ JourneyIdOf(x) = NoId}},
      journeys |-> {JourneyIdOf(e) : e \in {x \in rows : JourneyIdOf(x) # NoId}}]

HasAccessRequest(session, typeParam, id) ==
  /\ web' = [kind |-> "has-access", session |-> session, type |-> typeParam, id |-> id,
             hasAccess |-> HasAccessAnswer(enrollments, session, typeParam, id, now)]
  /\ UNCHANGED <<gateway, payments, enrollments, refunds, hooks, reqs, now, carts>>

\* a caller of the permissions library asks for a course or for a lesson
CourseAccessCheck(userId, courseId) ==
  /\ web' = [kind |-> "hasCourseAccess", userId |-> userId, courseId |-> courseId,
             answer |-> HasCourseAccessLib(enrollments, userId, courseId, now)]
  /\ UNCHANGED <<gateway, payments, enrollments, refunds, hooks, reqs, now, carts>>

LessonAccessCheck(userId, lessonId) ==
  /\ web' = [kind |-> "hasLessonAccess", userId |-> userId, lessonId |-> lessonId,
             courseId |-> LessonCourseId(lessonId),
             answer |-> HasLessonAccess(enrollments, userId, lessonId, now)]
  /\ UNCHANGED <<gateway, payments, enrollments, refunds, hooks, reqs, now, carts>>

EnrollmentsRequest(session) ==
  /\ session # NoSession
  /\ web' = [kind |-> "enrollments", session |-> session,
             list |-> UserEnrollments(enrollments, session, now)]
  /\ UNCHANGED <<gateway, payments, enrollments, refunds, hooks, reqs, now, carts>>

\* ------------------------------------------- the first webhook and its payments
\* a key the payment's metadata does not have
Undefined == "undefined"
MaxSinglePayments == 2
\* their ids at the gateway, apart from the ids of the pay endpoints' payments
SingleIds == (MaxPayments + 1)..(MaxPayments + MaxSinglePayments)

\* a payment made at the gateway with the metadata the first webhook reads
\* (webhook/route.ts 492-495): { userId, type, id } for one course or journey
SinglePayGateway(userId, item) ==
  /\ \E id \in SingleIds :
       /\ id \notin DOMAIN gateway
       /\ \A j \in SingleIds : j < id => j \in DOMAIN gateway
       /\ gateway' = gateway @@
            (id :> GatewayPayment("pending", TRUE, userId, <<item>>, "single", TRUE))
  /\ UNCHANGED <<carts, web, payments, enrollments, refunds, hooks, reqs, now>>

\* webhook/route.ts 491-495: metadata.userId, metadata.type, metadata.id and
\* metadata.durationMonths ?? 12.  The pay endpoints send { userId, items }.
LegacyMetadata(g) ==
  [userId |-> IF g.camel THEN g.userId ELSE Undefined,
   type |-> IF g.via = "single" THEN g.items[1].type ELSE Undefined,
   id |-> IF g.via = "single" THEN g.items[1].id ELSE Undefined,
   durationMonths |-> DefaultDurationMonths]

\* the answer of the first webhook to a notification, as an observer sees it
LegacyAnswer(id, status, did) ==
  [kind |-> "legacy-webhook", id |-> id, status |-> status, did |-> did]

\* webhook/route.ts 473-532: read the payment at the gateway and leave early
\* when the metadata is incomplete or the status is neither approved,
\* refunded nor cancelled
LegacyWebhookFetch(h, id) ==
  /\ hooks[h].pc = "idle"
  /\ h = "h2" => hooks["h1"].pc # "idle"
  /\ id \in DOMAIN gateway
  /\ LET g == gateway[id]
         m == LegacyMetadata(g)
     IN IF Undefined \in {m.userId, m.type, m.id}
          THEN web' = LegacyAnswer(id, g.status, "ignored") /\ UNCHANGED hooks
        ELSE IF g.status \in {"refunded", "cancelled"}
          THEN /\ hooks' = [hooks EXCEPT ![h] =
                    [IdleHook EXCEPT !.pc = "legacy-revert", !.ver = "legacy", !.id = id,
                                     !.rawStatus = g.status, !.status = g.status,
                                     !.userId = m.userId, !.items = g.items]]
               /\ UNCHANGED web
        ELSE IF g.status # "approved"
          THEN web' = LegacyAnswer(id, g.status, "not-approved") /\ UNCHANGED hooks
        ELSE /\ hooks' = [hooks EXCEPT ![h] =
                  [IdleHook EXCEPT !.pc = "legacy-check", !.ver = "legacy", !.id = id,
                                   !.rawStatus = g.status, !.status = g.status,
                                   !.userId = m.userId, !.items = g.items]]
             /\ UNCHANGED web
  /\ UNCHANGED <<carts, gateway, payments, enrollments, refunds, reqs, now>>

\* String.prototype.toUpperCase on the two statuses of the branch
ToUpperCase(s) == IF s = "refunded" THEN "REFUNDED" ELSE "CANCELLED"

\* webhook/route.ts 503-522: updateMany of the Payment row, deleteMany of the enrollment
LegacyRevert(D, L) ==
  [D EXCEPT
     !.p = [i \in DOMAIN D.p |->
              IF i = L.id THEN [D.p[i] EXCEPT !.status = ToUpperCase(L.status)] ELSE D.p[i]],
     !.e = {e \in D.e : ~(/\ e.userId = L.userId
                           /\ e.kind = L.items[1].type /\ e.ref = L.items[1].id)}]

LegacyWebhookRevert(h) ==
  /\ hooks[h].pc = "legacy-revert"
  /\ SetDB(LegacyRevert(DB, hooks[h]))
  /\ hooks' = [hooks EXCEPT ![h] = IdleHook]
  /\ web' = LegacyAnswer(hooks[h].id, hooks[h].status, "reverted")
  /\ UNCHANGED <<carts, gateway, reqs, now>>

\* webhook/route.ts 534-542: a Payment row with this mpPaymentId ends the handler
LegacyWebhookCheck(h) ==
  /\ hooks[h].pc = "legacy-check"
  /\ IF hooks[h].id \in DOMAIN payments
       THEN /\ hooks' = [hooks EXCEPT ![h] = IdleHook]
            /\ web' = LegacyAnswer(hooks[h].id, hooks[h].status, "exists")
       ELSE /\ hooks' = [hooks EXCEPT ![h].pc = "legacy-create"]
            /\ UNCHANGED web
  /\ UNCHANGED <<carts, gateway, payments, enrollments, refunds, reqs, now>>

\* webhook/route.ts 559-591: enrollment.upsert with update: {}
LegacyUpsertEnrollment(E, userId, item, months, t) ==
  IF item.type \notin {"course", "journey"} THEN E
  ELSE IF \E e \in E : e.userId = userId /\ e.kind = item.type /\ e.ref = item.id
    THEN E
  ELSE E \cup {Enrollment(userId, item.type, item.id,
                          IF item.type = "course" THEN NullDate ELSE EndDate(t, months))}

\* webhook/route.ts 547-557: payment.create; 559-591: the enrollment
LegacyCreate(D, L, months, t) ==
  LET item == L.items[1]
      row == PaymentRow(L.userId, "APPROVED",
                        IF item.type = "journey" THEN "JOURNEY" ELSE "COURSE",
                        IF item.type = "course" THEN item.id ELSE NoId,
                        IF item.type = "journey" THEN item.id ELSE NoId,
                        <<>>, <<>>, t)
  IN [D EXCEPT !.p = @ @@ (L.id :> row),
               !.e = LegacyUpsertEnrollment(@, L.userId, item, months, t)]

\* the unique mpPaymentId and the foreign keys of Payment make create throw
\* (answer 500) when another handler or the pay endpoint wrote the row first
LegacyWebhookCreate(h) ==
  /\ hooks[h].pc = "legacy-create"
  /\ LET L == hooks[h]
         months == LegacyMetadata(gateway[L.id]).durationMonths
     IN IF \/ L.id \in DOMAIN payments \/ L.userId \notin Users
           \/ L.items[1].id \notin Courses \cup Journeys
          THEN /\ web' = LegacyAnswer(L.id, L.status, "error")
               /\ UNCHANGED <<payments, enrollments, refunds>>
          ELSE /\ SetDB(LegacyCreate(DB, L, months, now))
               /\ web' = LegacyAnswer(L.id, L.status, "created")
  /\ hooks' = [hooks EXCEPT ![h] = IdleHook]
  /\ UNCHANGED <<carts, gateway, reqs, now>>

LegacyHookActions(hs) ==
  \/ \E h \in hs, id \in MpIds \cup SingleIds : LegacyWebhookFetch(h, id)
  \/ \E h \in hs : LegacyWebhookRevert(h)
  \/ \E h \in hs : LegacyWebhookCheck(h)
  \/ \E h \in hs : LegacyWebhookCreate(h)

\* ------------------------------------------------------------ the middleware
\* a pathname is the sequence of its segments: /admin/users is <<"admin", "users">>
Paths ==
  {<<>>, <<"signin">>, <<"perfil">>, <<"dashboard">>,
   <<"dashboard", "cursos", "c1">>, <<"dashboard", "jornadas", "j1">>,
   <<"admin">>, <<"admin", "users">>, <<"admin", "report.pdf">>, <<"administracao">>,
   <<"api", "cart">>, <<"api", "courses">>,
   <<"curso", "c1">>, <<"cursos", "c1">>, <<"_next", "chunk">>}
\* req.nextUrl.search
Queries == {"", "?aba=1"}
Methods == {"GET", "POST"}
ProxyVersions == {"part000", "part001"}

\* the token of next-auth: none, or the user id (sub) and the role
NoToken == [sub |-> NoSession, role |-> "none"]
Tokens ==
  {NoToken, [sub |-> "u1", role |-> "USER"], [sub |-> "u1", role |-> "MODERATOR"],
   [sub |-> "u1", role |-> "ADMIN"], [sub |-> "u2", role |-> "USER"]}

\* String.prototype.startsWith on one segment, for the segments of Paths
HasPrefix(seg, word) == seg = word \/ <<seg, word>> \in {<<"administracao", "admin">>}
\* pathname.startsWith("/word")
StartsWith(path, word) == Len(path) >= 1 /\ HasPrefix(path[1], word)
\* pathname.startsWith("/word/")
StartsWithDir(path, word) == Len(path) >= 2 /\ path[1] = word
\* pathname.startsWith("/first/word")
StartsWith2(path, first, word) ==
  Len(path) >= 2 /\ path[1] = first /\ HasPrefix(path[2], word)
\* pathname.startsWith("/first/second/")
StartsWithDir2(path, first, second) ==
  Len(path) >= 3 /\ path[1] = first /\ path[2] = second
\* pathname.includes(".")
IncludesDot(path) == \E i \in DOMAIN path : path[i] \in {"report.pdf"}

PassThrough == [go |-> "next", to |-> <<>>, callbackUrl |-> <<>>]
\* NextResponse.redirect(new URL(to, req.url))
Redirect(to) == [go |-> "redirect", to |-> to, callbackUrl |-> <<>>]
\* the redirect to /signin with callbackUrl = pathname + search
RedirectSignin(path, query) ==
  [go |-> "redirect", to |-> <<"signin">>, callbackUrl |-> <<path, query>>]

\* part_000 9-26
IsPublicRoute000(path, method) ==
  \/ StartsWith(path, "signin") \/ StartsWith(path, "register")
  \/ StartsWith(path, "forgot-password") \/ StartsWith(path, "reset-password")
  \/ StartsWithDir(path, "curso") \/ StartsWithDir(path, "jornada")
  \/ StartsWith2(path, "api", "public")
  \/ path = <<>>
  \/ StartsWith(path, "_next") \/ StartsWith(path, "assets") \/ StartsWith(path, "favicon")
  \/ (path \in {<<"api", "courses">>, <<"api", "journeys">>} /\ method = "GET")

\* part_000 5-47: proxy
Proxy000(tok, path, query, method) ==
  IF ~IsPublicRoute000(path, method) /\ tok = NoToken THEN RedirectSignin(path, query)
  ELSE IF StartsWith(path, "admin") /\ (tok = NoToken \/ tok.role \notin {"ADMIN", "MODERATOR"})
    THEN Redirect(<<"dashboard">>)
  ELSE IF tok # NoToken /\ path \in {<<"signin">>, <<"register">>}
    THEN Redirect(<<"dashboard">>)
  ELSE PassThrough

\* part_001 13-30: the requests the middleware lets through before it reads the token
EarlyPassThrough(path) ==
  \/ StartsWith(path, "api")
  \/ StartsWith(path, "_next") \/ StartsWith(path, "assets") \/ IncludesDot(path)

\* part_001 35-50 (isPublicApiRoute included: /api paths never get this far)
IsPublicRoute001(path, method) ==
  \/ StartsWith(path, "signin") \/ StartsWith(path, "register")
  \/ StartsWith(path, "forgot-password") \/ StartsWith(path, "reset-password")
  \/ StartsWithDir(path, "curso") \/ StartsWithDir(path, "cursos")
  \/ StartsWithDir(path, "jornada") \/ StartsWithDir(path, "jornadas")
  \/ StartsWith2(path, "api", "public")
  \/ path = <<>>
  \/ (path \in {<<"api", "courses">>, <<"api", "journeys">>} /\ method = "GET")

\* a proxy without the course and journey checks of part_001 59-78
Proxy001_Mutant(E, tok, path, query, method, t) ==
  IF EarlyPassThrough(path) THEN PassThrough
  ELSE IF ~IsPublicRoute001(path, method) /\ tok = NoToken THEN RedirectSignin(path, query)
  ELSE IF StartsWith(path, "admin") /\ (tok = NoToken \/ tok.role # "ADMIN")
    THEN Redirect(<<"dashboard">>)
  ELSE PassThrough

\* part_001 10-93: proxy
Proxy001(E, tok, path, query, method, t) ==
  IF EarlyPassThrough(path) THEN PassThrough
  ELSE IF ~IsPublicRoute001(path, method) /\ tok = NoToken THEN RedirectSignin(path, query)
  ELSE IF /\ tok # NoToken /\ StartsWithDir2(path, "dashboard", "cursos")
          /\ ~HasCourseAccess(E, tok.sub, path[3], t)
    THEN Redirect(<<"dashboard">>)
  ELSE IF /\ tok # NoToken /\ StartsWithDir2(path, "dashboard", "jornadas")
          /\ ~HasJourneyAccess(E, tok.sub, path[3], t)
    THEN Redirect(<<"dashboard">>)
  ELSE IF StartsWith(path, "admin") /\ (tok = NoToken \/ tok.role # "ADMIN")
    THEN Redirect(<<"dashboard">>)
  ELSE IF tok # NoToken /\ path \in {<<"signin">>, <<"register">>}
    THEN Redirect(<<"dashboard">>)
  ELSE PassThrough

Proxy(ver, E, tok, path, query, method, t) ==
  IF ver = "part000" THEN Proxy000(tok, path, query, method)
  ELSE Proxy001(E, tok, path, query, method, t)

\* a page or API request goes through the middleware
ProxyRequest(ver, tok, path, query, method) ==
  /\ web' = [kind |-> "proxy", ver |-> ver, token |-> tok, path |-> path, query |-> query,
             method |-> method,
             answer |-> Proxy(ver, enrollments, tok, path, query, method, now)]
  /\ UNCHANGED <<gateway, payments, enrollments, refunds, hooks, reqs, now, carts>>

\* ------------------------------------------------------------------- the cart
MaxCartItems == 2
\* a CartItem row, and an item of the body of PUT /api/cart (SaveCartItem)
CartItem(itemType, courseId, journeyId) ==
  [itemType |-> itemType, courseId |-> courseId, journeyId |-> journeyId]
\* ids a client can name: rows of the Course and Journey tables, and "c9" and
\* "j9", which are in neither
SubmittedItems ==
  {CartItem("COURSE", "c1", NoId), CartItem("COURSE", "c2", NoId),
   CartItem("JOURNEY", NoId, "j1"), CartItem("COURSE", "c9", NoId),
   CartItem("JOURNEY", NoId, "j9"), CartItem("COURSE", "c1", "j9"),
   CartItem("COURSE", NoId, NoId)}
SubmittedLists ==
  UNION {[1..n -> SubmittedItems] : n \in 0..MaxCartItems}

\* the answer of /api/cart to a request, with the request
CartAnswer(op, session, request, status) ==
  [kind |-> "cart", op |-> op, session |-> session, request |-> request, status |-> status]

\* cart/route.ts 73-116: the items whose courseId, or else journeyId, is a row
\* of its table
SanitizedItems(items) ==
  SelectSeq(items, LAMBDA item :
    IF item.courseId # NoId THEN item.courseId \in Courses
    ELSE IF item.journeyId # NoId THEN item.journeyId \in Journeys
    ELSE FALSE)

\* the foreign keys of CartItem (error P2003)
CartForeignKeysOk(rows) ==
  \A i \in DOMAIN rows :
    /\ rows[i].courseId \in Courses \cup {NoId}
    /\ rows[i].journeyId \in Journeys \cup {NoId}

\* cart/route.ts 58-170: PUT
CartPut(session, items) ==
  /\ IF session = NoSession
       THEN /\ web' = CartAnswer("PUT", session, items, 401)
            /\ UNCHANGED carts
     ELSE IF ~CartForeignKeysOk(SanitizedItems(items))
       THEN /\ web' = CartAnswer("PUT", session, items, 400)
            /\ UNCHANGED carts
     ELSE /\ carts' = [carts EXCEPT ![session] =
                         [exists |-> TRUE, items |-> SanitizedItems(items)]]
          /\ web' = CartAnswer("PUT", session, items, 200)
  /\ UNCHANGED <<gateway, payments, enrollments, refunds, hooks, reqs, now>>

\* cart/route.ts 203-212: the where clause of cartItem.deleteMany
DeleteMatches(row, itemId, itemType) ==
  /\ row.itemType = itemType
  /\ \/ row.courseId = (IF itemType = "COURSE" THEN itemId ELSE NoId)
     \/ row.journeyId = (IF itemType = "JOURNEY" THEN itemId ELSE NoId)

\* what a request body can carry as itemId and itemType ("": left out)
DeleteIds == {"c1", "c2", "j1", ""}
DeleteTypes == {"COURSE", "JOURNEY", ""}

\* cart/route.ts 172-218: DELETE
CartDelete(session, itemId, itemType, clear) ==
  /\ LET request == [itemId |-> itemId, itemType |-> itemType, clear |-> clear]
     IN IF session = NoSession
          THEN /\ web' = CartAnswer("DELETE", session, request, 401)
               /\ UNCHANGED carts
        ELSE IF ~carts[session].exists
          THEN /\ web' = CartAnswer("DELETE", session, request, 404)
               /\ UNCHANGED carts
        ELSE IF clear
          THEN /\ carts' = [carts EXCEPT ![session].items = <<>>]
               /\ web' = CartAnswer("DELETE", session, request, 200)
        ELSE IF itemId # "" /\ itemType # ""
          THEN /\ carts' = [carts EXCEPT ![session].items =
                              SelectSeq(@, LAMBDA row : ~DeleteMatches(row, itemId, itemType))]
               /\ web' = CartAnswer("DELETE", session, request, 200)
        ELSE /\ web' = CartAnswer("DELETE", session, request, 400)
             /\ UNCHANGED carts
  /\ UNCHANGED <<gateway, payments, enrollments, refunds, hooks, reqs, now>>

\* ------------------------------------------------------------ specification
\* a user who has not saved a cart yet has no Cart row
NoCart == [exists |-> FALSE, items |-> <<>>]
\* nothing has been requested yet
NoRequest == [kind |-> "none"]

Init ==
  /\ gateway = <<>>
  /\ payments = <<>>
  /\ enrollments = {}
  /\ refunds = [id \in MpIds |-> <<>>]
  /\ hooks = [h \in Hooks |-> IdleHook]
  /\ reqs = [r \in Reqs |-> IdleReq(0)]
  /\ now = 0
  /\ carts = [u \in SignedUp |-> NoCart]
  /\ web = NoRequest

\* the statuses the gateway moves a payment through in the runs below
CoreStatuses == {"pending", "approved", "refunded", "cancelled", "in_mediation"}

PayActions ==
  \/ \E u \in Users, voc \in Vocabularies, ids \in CartIds, camel \in BOOLEAN :
       PayGateway(u, Cart(voc, ids), camel)
  \/ \E id \in MpIds : PaySave(id)
  \/ \E u \in Users, ids \in CartIds, camel \in BOOLEAN :
       LegacyPayGateway(u, Cart("en", ids), camel)
  \/ \E id \in MpIds : LegacyPaySave(id)

HookActions(hs, vers) ==
  \/ \E h \in hs, ver \in vers, id \in MpIds : WebhookFetch(h, ver, id)
  \/ \E h \in hs : WebhookWrite(h)
  \/ \E h \in hs : WebhookItems(h)

RefundActions(rs, vers) ==
  \/ \E r \in rs, ver \in vers, id \in RequestIds, u \in Requesters :
       RefundStart(r, ver, id, u)
  \/ \E r \in rs, st \in RefundGatewayStatuses : RefundGatewayOk(r, st)
  \/ \E r \in rs : RefundGatewayError(r)
  \/ \E r \in rs : RefundTx(r)
  \/ \E r \in rs : RefundRevoke(r)

\* the webhook alone: payments are made, the gateway moves them, one
\* notification is handled at a time
Next ==
  \/ PayActions
  \/ \E id \in MpIds, s \in CoreStatuses : GatewayUpdate(id, s)
  \/ Tick
  \/ HookActions({"h1"}, HookVersions)

Spec == Init /\ [][Next]_vars

\* two handlers of the current webhook run concurrently
\* (the gateway approves a payment and later refunds it, nothing else)
NextRace ==
  \/ PayActions
  \/ \E id \in MpIds : GatewaySettles(id)
  \/ HookActions(Hooks, {"current"})

SpecRace == Init /\ [][NextRace]_vars

\* refund requests, one at a time, with the webhook
NextRefund ==
  \/ PayActions
  \/ \E id \in MpIds, s \in {"approved", "refunded"} : GatewayUpdate(id, s)
  \/ HookActions({"h1"}, HookVersions)
  \/ RefundActions({"r1"}, {"part008", "v3"})

SpecRefund == Init /\ [][NextRefund]_vars

\* concurrent refund requests
NextRefundRace ==
  \/ PayActions
  \/ \E id \in MpIds, s \in {"approved", "refunded"} : GatewayUpdate(id, s)
  \/ RefundActions(Reqs, {"part008", "v3"})

SpecRefundRace == Init /\ [][NextRefundRace]_vars

\* every status the gateway can send, handled by the current webhook
NextStatus ==
  \/ \E u \in Users, camel \in BOOLEAN : LegacyPayGateway(u, Cart("en", <<"c1">>), camel)
  \/ \E id \in MpIds : LegacyPaySave(id)
  \/ \E id \in MpIds, s \in GatewayStatuses : GatewayUpdate(id, s)
  \/ HookActions({"h1"}, {"current"})

SpecStatus == Init /\ [][NextStatus]_vars

\* the days around the ends of the refund windows
WindowDays == {RefundLimitDaysV3, RefundLimitDaysV3 + 1, RefundLimitDays008, RefundLimitDays008 + 1}

\* refund requests of every generation, by the owner or by somebody else, for
\* a payment or for none, as the days pass
NextWindow ==
  \/ \E u \in Users : LegacyPayGateway(u, Cart("en", <<"c1">>), TRUE)
  \/ \E id \in MpIds : LegacyPaySave(id)
  \/ \E id \in MpIds : GatewaySettles(id)
  \/ Advance(WindowDays)
  \/ HookActions({"h1"}, {"part007"})
  \/ RefundActions({"r1"}, RefundVersions)

SpecWindow == Init /\ [][NextWindow]_vars

\* the ends an enrollment can have: none, after one month, after a year
AccessEnds == {NullDate, EndDate(0, 1), EndDate(0, DefaultDurationMonths)}
AccessKeys == {<<"u1", "course", "c1">>, <<"u1", "journey", "j1">>, <<"u2", "course", "c1">>}
\* the Enrollment tables: at most one row for a user and a course or journey
\* (the unique keys userId_courseId and userId_journeyId)
EnrollmentTables ==
  {{Enrollment(k[1], k[2], k[3], f[k]) : k \in ks} :
     ks \in SUBSET AccessKeys, f \in [AccessKeys -> AccessEnds]}
\* the last day of a one-month enrollment, the day after, and a day past the year
AccessDays == {30, 31, 400}

InitAccess ==
  /\ gateway = <<>>
  /\ payments = <<>>
  /\ enrollments \in EnrollmentTables
  /\ refunds = [id \in MpIds |-> <<>>]
  /\ hooks = [h \in Hooks |-> IdleHook]
  /\ reqs = [r \in Reqs |-> IdleReq(0)]
  /\ now = 0
  /\ carts = [u \in SignedUp |-> NoCart]
  /\ web = NoRequest

\* the access checks, asked on any table of enrollments as the days pass
NextAccess ==
  \/ Advance(AccessDays)
  \/ \E u \in Sessions, ty \in AccessTypes, id \in Courses \cup Journeys :
       HasAccessRequest(u, ty, id)
  \/ \E u \in Sessions : EnrollmentsRequest(u)

SpecAccess == InitAccess /\ [][NextAccess]_vars

\* every request through either middleware
NextProxy ==
  \/ \E ver \in ProxyVersions, tok \in Tokens, path \in Paths, q \in Queries, m \in Methods :
       ProxyRequest(ver, tok, path, q, m)

SpecProxy == Init /\ [][NextProxy]_vars

\* the gated pages of one buyer: a purchase provisions access, a refund or the
\* end of the period takes it away, and the pages are requested at any moment
GatePaths == {<<"dashboard">>, <<"dashboard", "cursos", "c1">>, <<"dashboard", "jornadas", "j1">>}
GateTokens == {[sub |-> "u1", role |-> "USER"], [sub |-> "u1", role |-> "ADMIN"],
               [sub |-> "u2", role |-> "USER"]}
NextGate ==
  \/ \E u \in Users, ids \in CartIds : LegacyPayGateway(u, Cart("en", ids), TRUE)
  \/ \E id \in MpIds : LegacyPaySave(id)
  \/ \E id \in MpIds : GatewaySettles(id)
  \/ Advance({400})
  \/ HookActions({"h1"}, {"part007"})
  \/ RefundActions({"r1"}, {"v3"})
  \/ \E tok \in GateTokens, path \in GatePaths : ProxyRequest("part001", tok, path, "", "GET")

SpecGate == Init /\ [][NextGate]_vars

\* the first webhook with the pay endpoint of its file, and with payments
\* that carry the metadata it reads
SingleItems == {Item("c1", "course"), Item("j1", "journey")}
NextLegacy ==
  \/ \E u \in Users, ids \in CartIds, camel \in BOOLEAN :
       LegacyPayGateway(u, Cart("en", ids), camel)
  \/ \E id \in MpIds : LegacyPaySave(id)
  \/ \E u \in Users, item \in SingleItems : SinglePayGateway(u, item)
  \/ \E id \in MpIds \cup SingleIds : GatewaySettles(id)
  \/ Advance({8})
  \/ LegacyHookActions({"h1"})

SpecLegacy == Init /\ [][NextLegacy]_vars

\* journey purchases over time, handled by each of the three webhooks
NextDuration ==
  \/ \E u \in Users : LegacyPayGateway(u, Cart("en", <<"j1">>), TRUE)
  \/ \E id \in MpIds : LegacyPaySave(id)
  \/ \E u \in Users : SinglePayGateway(u, Item("j1", "journey"))
  \/ \E id \in MpIds \cup SingleIds : GatewaySettles(id)
  \/ Advance({8})
  \/ LegacyHookActions({"h1"})
  \/ HookActions({"h1"}, HookVersions)

SpecDuration == Init /\ [][NextDuration]_vars

\* the carts of two users and of a visitor without a session
NextCart ==
  \/ \E u \in Sessions, items \in SubmittedLists : CartPut(u, items)
  \/ \E u \in Sessions, id \in DeleteIds, ty \in DeleteTypes, clear \in BOOLEAN :
       CartDelete(u, id, ty, clear)

SpecCart == Init /\ [][NextCart]_vars

\* a buyer of the course, of the journey or of both, whose access to the
\* course and to its lessons is asked for at any moment
NextBundle ==
  \/ \E u \in Users, ids \in CartIds : LegacyPayGateway(u, Cart("en", ids), TRUE)
  \/ \E id \in MpIds : LegacyPaySave(id)
  \/ \E id \in MpIds : GatewaySettles(id)
  \/ Advance({400})
  \/ HookActions({"h1"}, {"current"})
  \/ \E u \in SignedUp, c \in Courses : CourseAccessCheck(u, c)
  \/ \E u \in SignedUp, l \in LessonIds : LessonAccessCheck(u, l)
  \/ \E tok \in GateTokens, path \in GatePaths : ProxyRequest("part001", tok, path, "", "GET")

SpecBundle == Init /\ [][NextBundle]_vars

\* ------------------------------------------------------------------ claims
ItemIds(items) == {items[i].id : i \in DOMAIN items}
HasEnrollment(E, userId, ref) == \E e \in E : e.userId = userId /\ e.ref = ref

\* a handler answers after its enrollment writes
HookCompletes(h) == hooks[h].pc = "items" /\ hooks'[h].pc = "idle"
\* a handler answers, after its payment write or after its enrollment writes
HookResponds(h) == hooks[h].pc \in {"write", "items"} /\ hooks'[h].pc = "idle"

\* C1: once the current webhook handler has processed the approved
\* notification of a payment made through the current pay endpoint, the
\* paying user holds an enrollment for every item of the payment.
C1_Provisioning ==
  [][\A h \in Hooks :
       (/\ HookCompletes(h)
        /\ hooks[h].ver = "current" /\ hooks[h].status = "approved"
        /\ gateway[hooks[h].id].via = "current" /\ gateway[hooks[h].id].saved)
       => \A ref \in ItemIds(gateway[hooks[h].id].items) :
            HasEnrollment(enrollments', gateway[hooks[h].id].userId, ref)]_vars

\* C2: when a handler has processed a notification with gateway status
\* refunded or cancelled, the user has no enrollment left for any item listed
\* in the payment by the time the handler responds.
C2_Revocation ==
  [][\A h \in Hooks :
       (HookResponds(h) /\ hooks[h].status \in {"refunded", "cancelled"})
       => \A ref \in ItemIds(hooks[h].items) :
            ~HasEnrollment(enrollments', hooks[h].userId, ref)]_vars

\* C5: the stored status of a payment never moves from APPROVED, REFUNDED,
\* CANCELLED or FAILED back to PENDING.
C5_Monotonic ==
  [][\A id \in DOMAIN payments :
       payments[id].status \in {"APPROVED", "REFUNDED", "CANCELLED", "FAILED"}
       => payments'[id].status # "PENDING"]_vars

NoAccessLeft(E, id) ==
  \A ref \in ItemIds(gateway[id].items) : ~HasEnrollment(E, gateway[id].userId, ref)

\* C4: once a handler that read the status refunded has written its effect
\* (stored status REFUNDED, no enrollment for the payment's items) while the
\* gateway reports refunded, a concurrent handler that read the older status
\* approved does not overwrite it.
C4_OutOfOrder ==
  [][\A id \in DOMAIN payments :
       (/\ gateway[id].status = "refunded" /\ payments[id].status = "REFUNDED"
        /\ NoAccessLeft(enrollments, id))
       => (payments'[id].status = "REFUNDED" /\ NoAccessLeft(enrollments', id))]_vars

\* the ways the gateway spells a status
Spellings(word) ==
  CASE word = "approved" -> {"approved", "APPROVED"}
    [] word = "refunded" -> {"refunded", "Refunded"}
    [] OTHER -> {word}
Spelt(raw, words) == \E w \in words : raw \in Spellings(w)

\* the status the mapping is to give for a gateway status, spelt either way
C6_Expected(raw) ==
  IF Spelt(raw, {"approved"}) THEN "APPROVED"
  ELSE IF Spelt(raw, {"refunded"}) THEN "REFUNDED"
  ELSE IF Spelt(raw, {"cancelled"}) THEN "CANCELLED"
  ELSE IF Spelt(raw, {"rejected", "charged_back"}) THEN "FAILED"
  ELSE "PENDING"

\* C6: the status the current webhook stores for gateway status s is
\* PENDING for pending, in_process and in_mediation, APPROVED for approved,
\* REFUNDED for refunded, CANCELLED for cancelled, FAILED for rejected and
\* charged_back, and PENDING for any other or empty status, whatever the case
\* of s.
C6_StatusMapping ==
  [][\A h \in Hooks :
       (/\ hooks[h].pc = "write" /\ hooks'[h].pc # "write"
        /\ hooks[h].ver = "current" /\ payments' # payments)
       => /\ hooks[h].id \in DOMAIN payments'
          /\ payments'[hooks[h].id].status = C6_Expected(hooks[h].rawStatus)
          /\ payments'[hooks[h].id].status \in PaymentStatus]_vars

\* the handler has stored REFUNDED for the gateway status "Refunded", which
\* matches a key of the map only after toLowerCase
C6_Witness ==
  \E id \in DOMAIN payments :
    /\ gateway[id].status = "Refunded" /\ payments[id].status = "REFUNDED"
    /\ hooks["h1"].pc = "items" /\ hooks["h1"].rawStatus = "Refunded"

\* what a duplicate notification must leave alone: the Payment rows with
\* their statuses and PaymentItem rows, the (user, item) pairs of the
\* enrollments, the Refund statuses
C3_View(D) ==
  [p |-> D.p, r |-> D.r, e |-> {<<e.userId, e.kind, e.ref>> : e \in D.e}]

\* C3: processing a notification a second time, while the gateway still
\* reports the same status, leaves the database as the first processing left
\* it, for every gateway status and both handlers (current and part_007).
C3_DuplicateHarmless ==
  \A ver \in HookVersions, id \in DOMAIN gateway, s \in GatewayStatuses :
    LET gw    == [gateway EXCEPT ![id].status = s]
        first == RunWebhook(DB, gw, ver, id, now)
    IN \A t \in Days :
         t >= now => C3_View(RunWebhook(first, gw, ver, id, t)) = C3_View(first)

\* a refunded notification has been processed for a payment with a pending
\* Refund and an enrollment, and one more notification would find work done
C3_Witness ==
  \E id \in DOMAIN payments :
    /\ gateway[id].status = "refunded" /\ payments[id].status = "REFUNDED"
    /\ "COMPLETED" \in Range(refunds[id])
    /\ hooks["h1"].pc = "idle"
    /\ RunWebhook(DB, gateway, "part007", id, now) = DB

\* a refund request reaches its transaction: the Refund row is created
RefundCreated(r) == reqs[r].pc = "tx" /\ reqs'[r].pc = "revoke"
\* a refund request answers { success: true }
RefundSucceeds(r) == reqs[r].pc = "revoke" /\ reqs'[r].pc = "idle" /\ reqs'[r].resp = 200

\* C7: the refund endpoint creates a Refund only for a payment whose stored
\* status was APPROVED when the request read it.
C7_RefundOnlyApproved ==
  [][\A r \in Reqs : RefundCreated(r) => reqs[r].row.status = "APPROVED"]_vars

\* the items of a Payment row: its PaymentItem rows, the items of its
\* metadata and its own courseId / journeyId
ItemsOfPayment(row) ==
  ({row.items[i].courseId : i \in DOMAIN row.items}
     \cup {row.items[i].journeyId : i \in DOMAIN row.items}
     \cup ItemIds(row.metaItems) \cup {row.courseId, row.journeyId}) \ {NoId}

\* C8: whenever the refund endpoint answers success: true with the message
\* that the access was revoked (part_008, part_009 93-254), the requesting
\* user holds no enrollment for any item of the refunded payment.
C8_RefundRevokes ==
  [][\A r \in Reqs :
       (RefundSucceeds(r) /\ reqs[r].ver \in {"part008", "v3"})
       => \A ref \in ItemsOfPayment(reqs[r].row) :
            ~HasEnrollment(enrollments', reqs[r].userId, ref)]_vars

\* C9: whenever a Refund of a payment is stored as PENDING and the gateway
\* reports the payment as refunded, the current webhook handler, processing
\* that notification, leaves no Refund of the payment PENDING.
C9_RefundCompletion ==
  \A id \in DOMAIN payments :
    (gateway[id].status = "refunded" /\ "PENDING" \in Range(refunds[id]))
    => "PENDING" \notin Range(RunWebhook(DB, gateway, "current", id, now).r[id])

\* C10: a payment has at most one Refund row, and a refund request for a
\* payment that already has one is rejected (400) instead of going on to the
\* gateway.
C10_AtMostOneRefund ==
  [][/\ \A id \in MpIds : Len(refunds'[id]) <= 1
     /\ \A r \in Reqs :
          (reqs[r].pc = "idle" /\ reqs'[r].pc = "gateway")
          => refunds[reqs'[r].id] = <<>>]_vars

\* a request for payment id arrives after the end of the window of endpoint ver
TooLate(ver, id) ==
  id \in DOMAIN payments /\ now > payments[id].createdAt + RefundLimitDays(ver)
\* a request is turned down with HTTP status code and nothing is touched
RejectedUntouched(r, code) ==
  /\ reqs'[r].pc = "idle" /\ reqs'[r].resp = code
  /\ UNCHANGED <<gateway, payments, enrollments, refunds>>

\* C11 as stated: every refund request made after the end of the window is
\* answered 400 before any gateway call and changes nothing.
C11_LateAlways400 ==
  [][\A r \in Reqs, ver \in RefundVersions, id \in RequestIds, u \in Requesters :
       (RefundStart(r, ver, id, u) /\ TooLate(ver, id))
       => RejectedUntouched(r, 400)]_vars

\* C11, amended: a refund request made after the end of the window is turned
\* down before any gateway call and changes nothing, with 400 when the
\* requester owns the payment and with 403 otherwise; a request of the owner
\* made within the window, for a payment without a completed or approved
\* Refund, goes on to the gateway.
C11_RefundWindow ==
  [][\A r \in Reqs, ver \in RefundVersions, id \in RequestIds, u \in Requesters :
       /\ (RefundStart(r, ver, id, u) /\ TooLate(ver, id))
          => RejectedUntouched(r, IF payments[id].userId = u THEN 400 ELSE 403)
       /\ (/\ RefundStart(r, ver, id, u)
           /\ id \in DOMAIN payments /\ ~TooLate(ver, id)
           /\ payments[id].userId = u /\ ~HasApprovedRefund(refunds[id]))
          => reqs'[r].pc = "gateway"]_vars

\* the owner, enrolled, was answered 400 for a payment that has no Refund and
\* is older than the longest window
C11_Witness ==
  \E id \in DOMAIN payments :
    /\ now > payments[id].createdAt + RefundLimitDays008
    /\ refunds[id] = <<>> /\ enrollments # {}
    /\ reqs["r1"].pc = "idle" /\ reqs["r1"].resp = 400

\* C12: a refund request whose userId is not the userId of the payment is
\* answered 403 and a request for an unknown payment id 404; in both cases
\* the gateway is not called, no Refund is created, the payment status is
\* unchanged and no enrollment is deleted.
C12_RefundOwnership ==
  [][\A r \in Reqs, ver \in RefundVersions, id \in RequestIds, u \in Requesters :
       RefundStart(r, ver, id, u)
       => /\ id \notin DOMAIN payments => RejectedUntouched(r, 404)
          /\ (id \in DOMAIN payments /\ payments[id].userId # u)
             => RejectedUntouched(r, 403)]_vars

\* somebody else's request for an approved payment of an enrolled user, still
\* within every window, has been answered 403
C12_Witness ==
  \E id \in DOMAIN payments :
    /\ payments[id].status = "APPROVED" /\ refunds[id] = <<>>
    /\ HasEnrollment(enrollments, payments[id].userId, "c1")
    /\ ~TooLate("v3", id)
    /\ reqs["r1"].pc = "idle" /\ reqs["r1"].resp = 403

\* an enrollment of the user for the course that has not ended
ValidCourseEnrollment(userId, courseId) ==
  \E e \in enrollments :
    /\ e.userId = userId /\ e.kind = "course" /\ e.ref = courseId
    /\ (e.endDate.null \/ EndDay(e.endDate) >= now)

C14_AdminArea ==
  (web.kind = "proxy" /\ StartsWith(web.path, "admin"))
  => IF web.token # NoToken /\ web.token.role \in
          (IF web.ver = "part001" THEN {"ADMIN"} ELSE {"ADMIN", "MODERATOR"})
       THEN web.answer.go = "next"
       ELSE web.answer.go = "redirect"

\* C15: a request without a token to a path that is not a public route is
\* never passed through: it is redirected to /signin with callbackUrl equal
\* to the path plus the query string.
C15_AuthenticatedRoutes ==
  (/\ web.kind = "proxy" /\ web.token = NoToken
   /\ ~(IF web.ver = "part001" THEN IsPublicRoute001(web.path, web.method)
        ELSE IsPublicRoute000(web.path, web.method)))
  => web.answer = RedirectSignin(web.path, web.query)

ValidJourneyEnrollment(userId, journeyId) ==
  \E e \in enrollments :
    /\ e.userId = userId /\ e.kind = "journey" /\ e.ref = journeyId
    /\ (e.endDate.null \/ EndDay(e.endDate) >= now)

\* the enrollment the page /dashboard/cursos/{id} or /dashboard/jornadas/{id} asks for
ValidEnrollmentFor(userId, path) ==
  IF path[2] = "cursos" THEN ValidCourseEnrollment(userId, path[3])
  ELSE ValidJourneyEnrollment(userId, path[3])

\* a request that went through the middleware for a course or journey page
GatedRequest(w) ==
  /\ w.kind = "proxy"
  /\ Len(w.path) = 3 /\ w.path[1] = "dashboard" /\ w.path[2] \in {"cursos", "jornadas"}

Purchased(id) == Range(gateway[id].items)

\* C17: the first webhook processes an approved payment exactly once: for a
\* payment made through the pay endpoint of its file, handling the approved
\* notification one or more times leaves exactly one APPROVED Payment row and
\* one enrollment for the purchased item.
C17_LegacyIdempotence ==
  [][\A id \in MpIds :
       (/\ web' # web /\ web'.kind = "legacy-webhook"
        /\ web'.id = id /\ web'.status = "approved"
        /\ gateway[id].via = "legacy" /\ gateway[id].saved)
       => /\ id \in DOMAIN payments' /\ payments'[id].status = "APPROVED"
          /\ \A it \in Purchased(id) :
               Cardinality({e \in enrollments' :
                              e.userId = gateway[id].userId /\ e.ref = it.id}) = 1]_vars

\* C18: after any sequence of approved-payment notifications every course
\* enrollment has endDate null, and every journey enrollment has a non-null
\* endDate equal to the time of the latest approved-payment processing for
\* that user and journey plus durationMonths (12 when the metadata has none).
C18_EnrollmentDuration ==
  [][/\ \A e \in enrollments' : e.endDate.null <=> e.kind = "course"
     /\ (web' # web /\ web'.kind = "legacy-webhook" /\ web'.did = "created")
        => \A it \in Purchased(web'.id) :
             it.type = "journey"
             => Enrollment(gateway[web'.id].userId, "journey", it.id,
                           EndDate(now, DefaultDurationMonths)) \in enrollments'
     /\ \A h \in Hooks :
          (hooks[h].pc = "items" /\ hooks'[h].pc = "idle" /\ hooks[h].status = "approved")
          => \A it \in Range(hooks[h].items) :
               (it.type = "journey" /\ it.id \in Journeys)
               => Enrollment(hooks[h].userId, "journey", it.id,
                             EndDate(now, DefaultDurationMonths)) \in enrollments']_vars

\* the rows of a cart that have this itemType and this course or journey id
SameItem(row, itemId, itemType) ==
  /\ row.itemType = itemType
  /\ IF itemType = "COURSE" THEN row.courseId = itemId ELSE row.journeyId = itemId

\* C19: DELETE /api/cart with an itemId and an itemType (and without clear)
\* removes exactly the items of the caller's cart that have that itemType and
\* that course or journey id, and leaves every other item of the cart and
\* every other user's cart unchanged.
C19_CartItemRemoval ==
  [][\A u \in SignedUp, id \in DeleteIds \ {""}, ty \in DeleteTypes \ {""} :
       (CartDelete(u, id, ty, FALSE) /\ carts[u].exists)
       => /\ carts'[u].items =
               SelectSeq(carts[u].items, LAMBDA row : ~SameItem(row, id, ty))
          /\ \A v \in SignedUp \ {u} : carts'[v] = carts[v]]_vars

\* the submitted items that reference a row of the Course or Journey table
\* and no id outside them
ReferenceExisting(items) ==
  SelectSeq(items, LAMBDA item :
    /\ item.courseId # NoId \/ item.journeyId # NoId
    /\ item.courseId \in Courses \cup {NoId}
    /\ item.journeyId \in Journeys \cup {NoId})

\* C20: after a successful PUT /api/cart the caller's cart holds exactly the
\* submitted items that reference an existing course or journey; the items
\* that reference a non-existing one are dropped, so that the request does
\* not fail with a foreign-key violation because of them.
C20_CartReplacement ==
  [][\A u \in SignedUp, items \in SubmittedLists :
       CartPut(u, items)
       => /\ web'.status = 200
               => carts' = [carts EXCEPT ![u] =
                              [exists |-> TRUE, items |-> ReferenceExisting(items)]]
          /\ web'.status # 400]_vars

\* the enrollments of a user that are not over
ActiveEnrollments(userId) ==
  {e \in enrollments : e.userId = userId /\ (e.endDate.null \/ EndDay(e.endDate) >= now)}

\* all the user has is an active enrollment for a journey with the course in it
OnlyThroughJourney(userId, courseId) ==
  /\ \E e \in ActiveEnrollments(userId) :
       e.kind = "journey" /\ e.ref \in Journeys /\ courseId \in JourneyCourses[e.ref]
  /\ \A e \in ActiveEnrollments(userId) : e.kind = "journey"

\* C21: course access depends only on enrollments carrying that courseId: a
\* user whose only active enrollment is for a journey that contains the
\* course is denied by hasCourseAccess and hasLessonAccess, and is redirected
\* to /dashboard by the middleware on /dashboard/cursos/{courseId}.
C21_JourneyGivesNoCourseAccess ==
  [][web' # web
     => /\ (web'.kind \in {"hasCourseAccess", "hasLessonAccess"}
            /\ web'.courseId \in Courses
            /\ OnlyThroughJourney(web'.userId, web'.courseId))
           => ~web'.answer
        /\ (web'.kind = "proxy" /\ web'.ver = "part001" /\ web'.token # NoToken
            /\ Len(web'.path) = 3 /\ web'.path[1] = "dashboard" /\ web'.path[2] = "cursos"
            /\ OnlyThroughJourney(web'.token.sub, web'.path[3]))
           => web'.answer = Redirect(<<"dashboard">>)]_vars

\* the buyer of journey j1 alone asks for a lesson of course c1 and is refused
C21_Witness ==
  /\ Enrollment("u1", "journey", "j1", EndDate(0, DefaultDurationMonths)) \in enrollments
  /\ OnlyThroughJourney("u1", "c1")
  /\ \E id \in DOMAIN payments : payments[id].status = "APPROVED"
  /\ web.kind = "hasLessonAccess" /\ web.userId = "u1" /\ web.lessonId = "l1"
  /\ ~web.answer

====
